---- MODULE Spec2Model ----
(***************************************************************************)
(* A model of the c2e retrieval-augmented-generation core:                 *)
(*   helpers/pubmed.py  search_pubmed, fetch_paper_details, get_papers and *)
(*                      the tag-scraping helpers,                          *)
(*   helpers/llm.py     setup_ollama_client, call_ollama,                  *)
(*   rag/base_rag.py    BaseRAG.__init__, _format_contexts, _build_prompt, *)
(*                      generate.                                          *)
(*                                                                         *)
(* Text is a sequence of tokens: a markup tag, a run of whitespace or a    *)
(* word is one token, so that str.find, slicing, strip and f-strings are   *)
(* computed on token positions the way the code computes them on           *)
(* character positions.  Python's None is the one-token text None; a text  *)
(* is falsy when it is None or empty.  A dict is a function whose DOMAIN   *)
(* is its set of keys.                                                     *)
(***************************************************************************)
EXTENDS Integers, Sequences, FiniteSets, TLC

\* ------------------------------------------------------------------ text

None == <<"##None##">>

Truthy(s) == s # None /\ s # <<>>

Whitespace == {" ", "\n"}

\* Markup tokens that end in the character ">" (str.find(">") stops in them).
ClosingGt == {">", "</ArticleId>", "</Author>", "<LastName>", "</LastName>",
              "<ForeName>", "</ForeName>", "<ArticleTitle>", "</ArticleTitle>",
              "<AbstractText>", "</AbstractText>", "<Title>", "</Title>",
              "<Year>", "</Year>", "<Month>", "</Month>", "<Day>", "</Day>",
              "<Author>"}

\* Whether token tok contains the searched text pat.
HasSub(tok, pat) == tok = pat \/ (pat = ">" /\ tok \in ClosingGt)

\* str.find(pat, from): the first position >= from (1-based) holding pat,
\* 0 for Python's -1.
Find(s, pat, from) ==
    LET hits == {i \in 1..Len(s) : i >= from /\ HasSub(s[i], pat)}
    IN  IF hits = {} THEN 0 ELSE CHOOSE i \in hits : \A j \in hits : i <= j

\* str.rfind(pat, 0, before): the last position < before holding pat, else 0.
RFind(s, pat, before) ==
    LET hits == {i \in 1..Len(s) : i < before /\ HasSub(s[i], pat)}
    IN  IF hits = {} THEN 0 ELSE CHOOSE i \in hits : \A j \in hits : i >= j

\* s[a:b] on 1-based positions: the tokens a .. b-1.
Slice(s, a, b) == IF b <= a THEN <<>> ELSE SubSeq(s, a, b - 1)

RECURSIVE LStrip(_)
LStrip(s) == IF s # <<>> /\ Head(s) \in Whitespace THEN LStrip(Tail(s)) ELSE s

RECURSIVE RStrip(_)
RStrip(s) ==
    IF s # <<>> /\ s[Len(s)] \in Whitespace
    THEN RStrip(SubSeq(s, 1, Len(s) - 1)) ELSE s

Strip(s) == RStrip(LStrip(s))

\* ------------------------------------------------ pubmed.py: tag scraping

_extract_xml_tag(xml_text, tag) ==
    LET start_tag == "<" \o tag \o ">"
        end_tag   == "</" \o tag \o ">"
        start_idx == Find(xml_text, start_tag, 1)
        end_idx   == Find(xml_text, end_tag, start_idx + 1)
    IN  IF start_idx = 0 THEN <<>>
        ELSE IF end_idx = 0 THEN <<>>
        ELSE Strip(Slice(xml_text, start_idx + 1, end_idx))

\* One pass of the while loop of _extract_authors, as a recursion on the
\* remaining text.
RECURSIVE AuthorsLoop(_, _)
AuthorsLoop(author_section, authors) ==
    LET last_name == _extract_xml_tag(author_section, "LastName")
        fore_name == _extract_xml_tag(author_section, "ForeName")
        author_name == IF fore_name # <<>>
                       THEN Strip(fore_name \o <<" ">> \o last_name)
                       ELSE last_name
        author_idx == Find(author_section, "</Author>", 1)
    IN  IF last_name = <<>> THEN authors
        ELSE IF author_idx = 0 THEN Append(authors, author_name)
        ELSE AuthorsLoop(Slice(author_section, author_idx + 1,
                               Len(author_section) + 1),
                         Append(authors, author_name))

\* As if the list were returned as the loop left it, with no stand-in name.
\* How many times the while loop of _extract_authors runs its body on the
\* text author_section.
RECURSIVE AuthorsIterations(_)
AuthorsIterations(author_section) ==
    LET last_name  == _extract_xml_tag(author_section, "LastName")
        author_idx == Find(author_section, "</Author>", 1)
    IN  IF last_name = <<>> THEN 1
        ELSE IF author_idx = 0 THEN 1
        ELSE 1 + AuthorsIterations(Slice(author_section, author_idx + 1,
                                         Len(author_section) + 1))

\* Whether every pass of the loop that goes on leaves a shorter text to scan.
RECURSIVE AuthorsShrinks(_)
AuthorsShrinks(author_section) ==
    LET last_name  == _extract_xml_tag(author_section, "LastName")
        author_idx == Find(author_section, "</Author>", 1)
        rest       == Slice(author_section, author_idx + 1,
                            Len(author_section) + 1)
    IN  IF last_name = <<>> \/ author_idx = 0 THEN TRUE
        ELSE Len(rest) < Len(author_section) /\ AuthorsShrinks(rest)

_extract_authors_NoFallback(xml_text) == AuthorsLoop(xml_text, <<>>)

_extract_authors(xml_text) ==
    LET authors == AuthorsLoop(xml_text, <<>>)
    IN  IF authors # <<>> THEN authors ELSE << <<"Unknown">> >>

_extract_publication_date(xml_text) ==
    LET year  == _extract_xml_tag(xml_text, "Year")
        month == _extract_xml_tag(xml_text, "Month")
        day   == _extract_xml_tag(xml_text, "Day")
    IN  IF year # <<>>
        THEN year \o (IF month # <<>> THEN <<" ">> \o month ELSE <<>>)
                  \o (IF day # <<>> THEN <<" ">> \o day ELSE <<>>)
        ELSE <<"Unknown">>

\* _extract_doi and _extract_pmc_id are the same code for two id types.
ExtractArticleId(xml_text, marker) ==
    LET id_start  == Find(xml_text, marker, 1)
        tag_start == RFind(xml_text, "<ArticleId", id_start)
        tag_end   == Find(xml_text, "</ArticleId>", tag_start)
        content_start == Find(xml_text, ">", tag_start) + 1
        value == Strip(Slice(xml_text, content_start, tag_end))
    IN  IF id_start = 0 THEN None
        ELSE IF tag_start = 0 THEN None
        ELSE IF tag_end = 0 THEN None
        ELSE IF value # <<>> THEN value ELSE None

_extract_doi(xml_text) == ExtractArticleId(xml_text, "IdType=\"doi\"")

_extract_pmc_id(xml_text) == ExtractArticleId(xml_text, "IdType=\"pmc\"")

\* --------------------------------------------------------------- bounds

\* Largest top_k a caller passes.
MaxTopK == 2

\* ------------------------------------------------------ the environment

Queries == {<<"aspirin">>, <<"statins", " ", "risk">>}

Pmids == {<<"111">>, <<"222">>, <<"333">>}

\* How long a request to an external service takes before it answers or
\* fails, in milliseconds: the network's round trip during one call.
Latencies == {0, 50}

\* Identifier lists without repetition: what the search service can answer.
RECURSIVE IdListsOfLen(_)
IdListsOfLen(n) ==
    IF n = 0 THEN {<<>>}
    ELSE {Append(s, p) : s \in IdListsOfLen(n - 1), p \in Pmids}

NoRepeat(s) == \A i, j \in 1..Len(s) : i # j => s[i] # s[j]

\* The search service's contract (esearch with retmax): at most retmax
\* identifiers, in its own relevance order.
esearch(term, retmax) ==
    {s \in UNION {IdListsOfLen(n) : n \in 0..Cardinality(Pmids)} :
        NoRepeat(s) /\ Len(s) <= retmax}

ArticleId(type, value) ==
    <<"<ArticleId", " ", "IdType=\"" \o type \o "\"", ">", value, "</ArticleId>">>

\* A detail record as the fetch service sends it, with or without a DOI and a
\* full-text-repository id.
Doc(has_doi, has_pmc) ==
    <<"<Title>", "Lancet", "</Title>", "<Year>", "2020", "</Year>",
      "<ArticleTitle>", "Trial", "</ArticleTitle>",
      "<Author>", "<LastName>", "Doe", "</LastName>",
      "<ForeName>", "Jane", "</ForeName>", "</Author>">>
    \o ArticleId("pubmed", "111")
    \o (IF has_doi THEN ArticleId("doi", "10.1/x") ELSE <<>>)
    \o (IF has_pmc THEN ArticleId("pmc", "PMC77") ELSE <<>>)

\* A record whose full-text-repository id element is there but empty.
DocEmptyPmc == Doc(FALSE, FALSE) \o ArticleId("pmc", " ")

SampleDocs == {Doc(d, p) : d \in BOOLEAN, p \in BOOLEAN} \cup {DocEmptyPmc}

\* Exceptions: class and message.  Every class here derives from Exception.
RequestException(msg) == [class |-> "RequestException", msg |-> msg]
PlainException(msg)   == [class |-> "Exception", msg |-> msg]
ValueError(msg)       == [class |-> "ValueError", msg |-> msg]

\* What can go wrong with one HTTP request made through requests.get /
\* raise_for_status, and with the code that follows it in the same try block.
RequestFaults ==
    {RequestException(<<"connection refused">>),
     RequestException(<<"503 Server Error">>)}

OtherFaults == {ValueError(<<"bad record">>)}

\* ------------------------------------------- pubmed.py: records and URLs

get_paper_url(pmid, doi, pmc_id) ==
    IF Truthy(doi) THEN <<"https://doi.org/">> \o doi
    ELSE IF Truthy(pmc_id)
    THEN <<"https://www.ncbi.nlm.nih.gov/pmc/articles/">> \o pmc_id \o <<"/">>
    ELSE IF Truthy(pmid)
    THEN <<"https://pubmed.ncbi.nlm.nih.gov/">> \o pmid \o <<"/">>
    ELSE None

\* The URL fetch_paper_details computes for the record it builds.
PaperUrl(doi, pmc_id) ==
    IF Truthy(doi) THEN <<"https://doi.org/">> \o doi
    ELSE IF Truthy(pmc_id)
    THEN <<"https://www.ncbi.nlm.nih.gov/pmc/articles/">> \o pmc_id \o <<"/">>
    ELSE None

\* As if every record were marked freely available, checked or not.
PubMedPaper_AssumeFree(pmid, xml_text, is_free_in_pmc) ==
    LET abstract == _extract_xml_tag(xml_text, "AbstractText")
        doi      == _extract_doi(xml_text)
        pmc_id   == _extract_pmc_id(xml_text)
    IN  [pmid             |-> pmid,
         title            |-> _extract_xml_tag(xml_text, "ArticleTitle"),
         abstract         |-> IF abstract = <<>>
                              THEN <<"No abstract available">> ELSE abstract,
         authors          |-> _extract_authors(xml_text),
         journal          |-> _extract_xml_tag(xml_text, "Title"),
         publication_date |-> _extract_publication_date(xml_text),
         doi              |-> doi,
         pmc_id           |-> pmc_id,
         is_free_in_pmc   |-> TRUE,
         paper_url        |-> PaperUrl(doi, pmc_id)]

\* The PubMedPaper fetch_paper_details builds from a fetched record text and
\* the answer of the availability check (FALSE when no check was made).
PubMedPaper(pmid, xml_text, is_free_in_pmc) ==
    LET abstract == _extract_xml_tag(xml_text, "AbstractText")
        doi      == _extract_doi(xml_text)
        pmc_id   == _extract_pmc_id(xml_text)
    IN  [pmid             |-> pmid,
         title            |-> _extract_xml_tag(xml_text, "ArticleTitle"),
         abstract         |-> IF abstract = <<>>
                              THEN <<"No abstract available">> ELSE abstract,
         authors          |-> _extract_authors(xml_text),
         journal          |-> _extract_xml_tag(xml_text, "Title"),
         publication_date |-> _extract_publication_date(xml_text),
         doi              |-> doi,
         pmc_id           |-> pmc_id,
         is_free_in_pmc   |-> is_free_in_pmc,
         paper_url        |-> PaperUrl(doi, pmc_id)]

\* The except clause of search_pubmed and of fetch_paper_details: a
\* RequestException is re-raised as a plain Exception with a prefixed
\* message, anything else propagates as it is.
Reraise(prefix, e) ==
    IF e.class = "RequestException"
    THEN PlainException(prefix \o e.msg) ELSE e

\* As if the loop caught only the requests library's own exception class.
GetPapersCatches_RequestsOnly(e) == e.class = "RequestException"

\* The except clause of the loop of get_papers: "except Exception".
GetPapersCatches(e) == e.class \in {"Exception", "RequestException", "ValueError"}

\* As if the check had no except clause giving FALSE: the answer is taken
\* whether or not the request succeeded.
check_pmc_availability_NoExcept(request_ok, has_article) == has_article

\* check_pmc_availability: TRUE exactly when the request succeeded and the
\* answer holds the word "article"; every exception gives FALSE.
check_pmc_availability(request_ok, has_article) ==
    IF request_ok THEN has_article ELSE FALSE

\* time.sleep(0.34) of get_papers, in milliseconds.
SleepMs == 340

\* ---------------------------------------------------------------- llm.py

\* A client handle: who made it, where it points, and whether it has been
\* released (closed).  ollama.Client(host=base_url) is open when made.
setup_ollama_client(host, port) ==
    [kind |-> "constructed", base_url |-> <<"http://", host, ":", port>>,
     closed |-> FALSE]

CallerClient ==
    [kind |-> "supplied", base_url |-> <<"http://", "gpu", ":", "11434">>,
     closed |-> FALSE]

NoClient == [kind |-> "none", base_url |-> <<>>, closed |-> FALSE]

\* The options dict of call_ollama; max_tokens = -1 stands for None.
NoMaxTokens == -1

Options(temperature, max_tokens) ==
    IF max_tokens # NoMaxTokens /\ max_tokens # 0
    THEN [temperature |-> temperature, num_predict |-> max_tokens]
    ELSE [temperature |-> temperature]

\* The client call_ollama uses: the one given, else one it sets up.
ClientUsed(client, host, port) ==
    IF client = NoClient THEN setup_ollama_client(host, port) ELSE client

\* What the backend call (client.generate) can do: return a result mapping,
\* or raise.
BackendReturns ==
    {[response |-> <<"Aspirin", " ", "helps.">>, done |-> TRUE],
     [response |-> <<>>, done |-> TRUE],
     [done |-> TRUE]}

BackendRaises ==
    {[class |-> "ConnectionError", msg |-> <<"Failed to connect to Ollama">>],
     [class |-> "ResponseError", msg |-> <<"model not found">>]}

SetupRaises == {[class |-> "ValueError", msg |-> <<"invalid host">>]}

Returned(value) == [raised |-> FALSE, value |-> value]
Raised(e)       == [raised |-> TRUE, exc |-> e]

BackendOutcomes ==
    {Returned(r) : r \in BackendReturns} \cup {Raised(e) : e \in BackendRaises}

\* As if call_ollama caught connection failures only.
OllamaCatches_ConnectionOnly(e) == e.class = "ConnectionError"

\* The except clause of call_ollama: "except Exception".
OllamaCatches(e) ==
    e.class \in {"Exception", "ConnectionError", "ResponseError", "ValueError"}

OllamaError(e) == [error |-> <<"Ollama error: ">> \o e.msg, status |-> "error"]

\* call_ollama.  setup is the outcome of setup_ollama_client when no client
\* was given, backend the outcome of client.generate.  The result of the call
\* is Returned(dict) or, for an exception the except clause does not catch,
\* Raised(e).
call_ollama(stream, client, setup, backend) ==
    IF client = NoClient /\ setup.raised
    THEN IF OllamaCatches(setup.exc)
         THEN Returned(OllamaError(setup.exc)) ELSE setup
    ELSE IF backend.raised
    THEN IF OllamaCatches(backend.exc)
         THEN Returned(OllamaError(backend.exc)) ELSE backend
    ELSE IF stream
    THEN Returned([stream |-> backend.value, status |-> "streaming"])
    ELSE Returned(backend.value)

\* ----------------------------------------------------------- base_rag.py

RAGContext(content, metadata, score, source) ==
    [content |-> content, metadata |-> metadata, score |-> score,
     source |-> source]

RECURSIVE Join(_, _)
Join(parts, sep) ==
    IF parts = <<>> THEN <<>>
    ELSE IF Len(parts) = 1 THEN parts[1]
    ELSE parts[1] \o sep \o Join(Tail(parts), sep)

\* As if the blocks were numbered from 0 (enumerate without its start).
_format_contexts_FromZero(contexts) ==
    Join([i \in 1..Len(contexts) |->
            <<"Context ", ToString(i - 1)>>
            \o (IF Truthy(contexts[i].source)
                THEN <<" (Source: ">> \o contexts[i].source \o <<")">>
                ELSE <<>>)
            \o <<":", "\n">> \o contexts[i].content],
         <<"\n\n">>)

_format_contexts(contexts) ==
    Join([i \in 1..Len(contexts) |->
            <<"Context ", ToString(i)>>
            \o (IF Truthy(contexts[i].source)
                THEN <<" (Source: ">> \o contexts[i].source \o <<")">>
                ELSE <<>>)
            \o <<":", "\n">> \o contexts[i].content],
         <<"\n\n">>)

_build_prompt(q, contexts) ==
    <<"Based on the following contexts, please answer the question.",
      "\n\n", "Contexts:", "\n">>
    \o _format_contexts(contexts)
    \o <<"\n\n", "Question: ">> \o q \o <<"\n\n", "Answer:">>

\* The prompt generate builds when retrieve returned no context.
BarePrompt(q) == <<"Question: ">> \o q \o <<"\n\n", "Answer:">>

\* As if generate always went through the prompt assembler.
GeneratePrompt_AlwaysBuild(q, contexts) == _build_prompt(q, contexts)

GeneratePrompt(q, contexts) ==
    IF contexts # <<>> THEN _build_prompt(q, contexts)
    ELSE BarePrompt(q)

\* As if generate called call_ollama without its client, so that call_ollama
\* set up one of its own.
GenerateRequest_OwnClient(self, prompt, model, temperature) ==
    [model |-> model, prompt |-> prompt, system |-> None, stream |-> FALSE,
     options |-> Options(temperature, NoMaxTokens),
     client |-> ClientUsed(NoClient, "localhost", "11434")]

\* The request generate hands to call_ollama, which passes it to
\* client.generate.
GenerateRequest(self, prompt, model, temperature) ==
    [model |-> model, prompt |-> prompt, system |-> None, stream |-> FALSE,
     options |-> Options(temperature, NoMaxTokens),
     client |-> ClientUsed(self.ollama_client, "localhost", "11434")]

\* The answer generate puts in its payload.
Answer(result) ==
    IF "response" \in DOMAIN result THEN result.response
    ELSE <<"No response generated">>

\* As if generate did not test the result for an error marker.
GenerateOutcome_NoCheck(result, q, contexts) ==
    Returned([answer       |-> Answer(result),
              contexts     |-> contexts,
              query        |-> q,
              num_contexts |-> Len(contexts)])

\* As if the payload's count were not taken from the context list.
GenerateOutcome_NoCount(result, q, contexts) ==
    IF "error" \in DOMAIN result
    THEN Raised(PlainException(<<"Error generating answer: ">> \o result.error))
    ELSE Returned([answer       |-> Answer(result),
                   contexts     |-> contexts,
                   query        |-> q,
                   num_contexts |-> 0])

\* Lines 156-164 of generate: the outcome for a result mapping response.
GenerateOutcome(result, q, contexts) ==
    IF "error" \in DOMAIN result
    THEN Raised(PlainException(<<"Error generating answer: ">> \o result.error))
    ELSE Returned([answer       |-> Answer(result),
                   contexts     |-> contexts,
                   query        |-> q,
                   num_contexts |-> Len(contexts)])

\* A retriever over get_papers: one context per record, in order.
ToContext(paper) ==
    RAGContext(paper.abstract,
               [pmid |-> paper.pmid, title |-> paper.title],
               None, paper.paper_url)

retrieve(papers) == [i \in 1..Len(papers) |-> ToContext(papers[i])]

\* ------------------------------------------------------ load_datasets.py

\* The splits every dataset has, in the order of HEALTHVER_URLS.
ValidSplits == <<"train", "dev", "test">>

SplitSet == {ValidSplits[i] : i \in 1..Len(ValidSplits)}

IsValidSplit(split) == \E i \in 1..Len(ValidSplits) : ValidSplits[i] = split

\* Split names a caller may pass.
SplitNames == {"train", "dev", "test", "validation"}

\* Paths below data_dir.
HealthVerPath(split) == "healthver/healthver_" \o split \o ".csv"

HealthVerUrl(split) == "HealthVer/master/data/healthver_" \o split \o ".csv"

PubHealthPaths(split) ==
    <<"pubhealth/" \o split \o ".tsv",
      "pubhealth/public_health_fact/" \o split \o ".tsv",
      "pubhealth/PUBHEALTH/" \o split \o ".tsv">>

PubHealthZip == "pubhealth/pubhealth.zip"

SciFactUrl == "scifact/release/latest/data.tar.gz"

SciFactTar == "scifact/data.tar.gz"

SciFactCorpus == "scifact/data/corpus.jsonl"

SciFactClaims(split) == "scifact/data/claims_" \o split \o ".jsonl"

\* The files a loader of each class looks at or writes.
LoaderPaths(class) ==
    IF class = "HealthVerLoader"
    THEN {HealthVerPath(ValidSplits[i]) : i \in 1..Len(ValidSplits)}
    ELSE IF class = "PubHealthLoader"
    THEN {PubHealthZip}
         \cup {PubHealthPaths(ValidSplits[i])[k] : i \in 1..Len(ValidSplits), k \in 1..3}
    ELSE IF class = "SciFactLoader"
    THEN {SciFactTar, SciFactCorpus}
         \cup {SciFactClaims(ValidSplits[i]) : i \in 1..Len(ValidSplits)}
    ELSE {}

\* A file is absent, or there with all of its content (complete), or there
\* with only the first part of it (partial).  Path.exists() is true of both.
FileStates == {"absent", "partial", "complete"}

Exists(fs, path) == fs[path] # "absent"

\* Something a call did outside itself: an HTTP request, a file write, an
\* archive extraction, a file read, a call of the loader's download().
Effect(kind, what) == [kind |-> kind, what |-> what]

\* How a call leaves the files, what it did, and what it returned or raised.
Done(fs, eff, res) == [files |-> fs, effects |-> eff, result |-> res]

ReturnsNone == Returned([none |-> TRUE])

FileNotFoundError(msg) == [class |-> "FileNotFoundError", msg |-> msg]

InvalidSplit(split) ==
    ValueError(<<"Invalid split: ", split, ". Must be 'train', 'dev', or 'test'">>)

\* What the network does to one download: the file arrives (ok), the request
\* fails before anything is written (refused), or the connection breaks
\* while the chunks are being written (cut).
NetOutcomes == {"ok", "refused", "cut"}

\* DatasetLoader.download_file.
download_file(fs, url, output_path, net) ==
    IF Exists(fs, output_path) THEN Done(fs, <<>>, ReturnsNone)
    ELSE IF net = "refused"
    THEN Done(fs, <<Effect("request", url)>>,
              Raised(RequestException(<<"connection refused">>)))
    ELSE IF net = "cut"
    THEN Done([fs EXCEPT ![output_path] = "partial"],
              <<Effect("request", url), Effect("write", output_path)>>,
              Raised(RequestException(<<"connection broken">>)))
    ELSE Done([fs EXCEPT ![output_path] = "complete"],
              <<Effect("request", url), Effect("write", output_path)>>,
              ReturnsNone)

\* pd.read_csv / open for reading: the content as it is on disk.
read_file(fs, path) ==
    IF Exists(fs, path) THEN Returned([path |-> path, content |-> fs[path]])
    ELSE Raised(FileNotFoundError(<<"No such file or directory: ", path>>))

\* op, and after it, unless it raised, the read of path.
ThenRead(op, path) ==
    IF op.result.raised THEN op
    ELSE Done(op.files, op.effects \o <<Effect("read", path)>>,
              read_file(op.files, path))

\* A call of the loader's own download() made by a load method.
CallsDownload(op) == [op EXCEPT !.effects = <<Effect("download()", "")>> \o @]

\* HealthVerLoader.download from the i-th split on: download_file for each
\* split in turn, the first exception ending the loop.
RECURSIVE HealthVerDownloadFrom(_, _, _, _)
HealthVerDownloadFrom(i, fs, eff, nets) ==
    IF i > Len(ValidSplits) THEN Done(fs, eff, ReturnsNone)
    ELSE LET split == ValidSplits[i]
             r == download_file(fs, HealthVerUrl(split), HealthVerPath(split),
                                nets[split])
         IN  IF r.result.raised THEN Done(r.files, eff \o r.effects, r.result)
             ELSE HealthVerDownloadFrom(i + 1, r.files, eff \o r.effects, nets)

HealthVerLoader_download(fs, nets) == HealthVerDownloadFrom(1, fs, <<>>, nets)

\* As if the split were looked at only after the file had been looked for.
HealthVerLoader_load_LateCheck(fs, split, nets) ==
    LET down == CallsDownload(HealthVerLoader_download(fs, nets))
    IN  IF down.result.raised THEN down
        ELSE IF ~IsValidSplit(split)
        THEN Done(down.files, down.effects, Raised(InvalidSplit(split)))
        ELSE ThenRead(down, HealthVerPath(split))

HealthVerLoader_load(fs, split, nets) ==
    IF ~IsValidSplit(split) THEN Done(fs, <<>>, Raised(InvalidSplit(split)))
    ELSE ThenRead(IF ~Exists(fs, HealthVerPath(split))
                  THEN CallsDownload(HealthVerLoader_download(fs, nets))
                  ELSE Done(fs, <<>>, ReturnsNone),
                  HealthVerPath(split))

\* What gdown does when asked for the archive: the import fails (no_gdown),
\* the download raises, it returns without having saved a file (no_file), or
\* the archive is saved.
GdownOutcomes == {"no_gdown", "raises", "no_file", "saved"}

\* What the archive turns out to be when opened: not a zip file (0 - 1), or a
\* zip whose split files land in none of the candidate places (0) or in the
\* k-th one.
NotAZip == 0 - 1

ZipContents == {NotAZip} \cup (0..3)

BadZipFile(msg) == [class |-> "BadZipFile", msg |-> msg]

\* zip_ref.extractall: the three split files, in the zip's own directory.
extractall(fs, zp) ==
    [p \in DOMAIN fs |->
        IF \E i \in 1..Len(ValidSplits) :
              zp \in 1..3 /\ p = PubHealthPaths(ValidSplits[i])[zp]
        THEN "complete" ELSE fs[p]]

\* PubHealthLoader.download: nothing to do when gdown is missing (the one
\* exception caught) or the archive is already there; otherwise the archive
\* is fetched, opened and extracted, and whatever that raises leaves the call.
PubHealthLoader_download(fs, gd, zp) ==
    IF gd = "no_gdown" \/ Exists(fs, PubHealthZip)
    THEN Done(fs, <<>>, ReturnsNone)
    ELSE IF gd = "raises"
    THEN Done(fs, <<Effect("gdown", PubHealthZip)>>,
              Raised(RequestException(<<"Failed to retrieve file url">>)))
    ELSE IF gd = "no_file"
    THEN Done(fs, <<Effect("gdown", PubHealthZip)>>,
              Raised(FileNotFoundError(
                  <<"No such file or directory: ", PubHealthZip>>)))
    ELSE IF zp = NotAZip
    THEN Done([fs EXCEPT ![PubHealthZip] = "complete"],
              <<Effect("gdown", PubHealthZip)>>,
              Raised(BadZipFile(<<"File is not a zip file">>)))
    ELSE Done(extractall([fs EXCEPT ![PubHealthZip] = "complete"], zp),
              <<Effect("gdown", PubHealthZip), Effect("extract", PubHealthZip)>>,
              ReturnsNone)

\* The position in paths of the first file that exists, 0 when none does.
FirstExisting(fs, paths) ==
    IF \E i \in 1..Len(paths) : Exists(fs, paths[i])
    THEN CHOOSE i \in 1..Len(paths) :
            /\ Exists(fs, paths[i])
            /\ \A j \in 1..(i - 1) : ~Exists(fs, paths[j])
    ELSE 0

PubHealthNotFound(split) ==
    FileNotFoundError(<<"PubHealth ", split,
                        " data not found. Please download manually.">>)

\* As if the candidates were looked for again once download() had returned.
PubHealthLoader_load_LooksAgain(fs, split, gd, zp) ==
    IF ~IsValidSplit(split) THEN Done(fs, <<>>, Raised(InvalidSplit(split)))
    ELSE LET found == FirstExisting(fs, PubHealthPaths(split))
         IN  IF found # 0
             THEN ThenRead(Done(fs, <<>>, ReturnsNone),
                           PubHealthPaths(split)[found])
             ELSE LET down  == CallsDownload(PubHealthLoader_download(fs, gd, zp))
                      again == FirstExisting(down.files, PubHealthPaths(split))
                  IN  IF down.result.raised THEN down
                      ELSE IF again # 0
                      THEN ThenRead(down, PubHealthPaths(split)[again])
                      ELSE Done(down.files, down.effects,
                                Raised(PubHealthNotFound(split)))

PubHealthLoader_load(fs, split, gd, zp) ==
    IF ~IsValidSplit(split) THEN Done(fs, <<>>, Raised(InvalidSplit(split)))
    ELSE LET found == FirstExisting(fs, PubHealthPaths(split))
         IN  IF found # 0
             THEN ThenRead(Done(fs, <<>>, ReturnsNone),
                           PubHealthPaths(split)[found])
             ELSE LET down == CallsDownload(PubHealthLoader_download(fs, gd, zp))
                  IN  IF down.result.raised THEN down
                      ELSE Done(down.files, down.effects,
                                Raised(PubHealthNotFound(split)))

ReadError(msg) == [class |-> "ReadError", msg |-> msg]

\* DatasetLoader.extract_tar_gz of the SciFact archive: the corpus and the
\* claims of every split; an archive that is cut short cannot be read.
extract_tar_gz(fs, tar_path) ==
    IF ~Exists(fs, tar_path)
    THEN Done(fs, <<>>, Raised(FileNotFoundError(
             <<"No such file or directory: ", tar_path>>)))
    ELSE IF fs[tar_path] = "partial"
    THEN Done(fs, <<Effect("extract", tar_path)>>,
              Raised(ReadError(<<"unexpected end of data">>)))
    ELSE Done([p \in DOMAIN fs |-> IF p = tar_path THEN fs[p] ELSE "complete"],
              <<Effect("extract", tar_path)>>, ReturnsNone)

\* SciFactLoader.download.
SciFactLoader_download(fs, net) ==
    LET got == IF ~Exists(fs, SciFactTar)
               THEN download_file(fs, SciFactUrl, SciFactTar, net)
               ELSE Done(fs, <<>>, ReturnsNone)
        ext == extract_tar_gz(got.files, SciFactTar)
    IN  IF got.result.raised THEN got
        ELSE IF ~Exists(got.files, SciFactCorpus)
        THEN Done(ext.files, got.effects \o ext.effects, ext.result)
        ELSE got

\* load_corpus and, past its look at the split, load_claims: download() when
\* the file is not there, then the read.
SciFactRead(fs, path, net) ==
    ThenRead(IF ~Exists(fs, path)
             THEN CallsDownload(SciFactLoader_download(fs, net))
             ELSE Done(fs, <<>>, ReturnsNone),
             path)

SciFactLoader_load_corpus(fs, net) == SciFactRead(fs, SciFactCorpus, net)

SciFactLoader_load_claims(fs, split, net) ==
    IF ~IsValidSplit(split) THEN Done(fs, <<>>, Raised(InvalidSplit(split)))
    ELSE SciFactRead(fs, SciFactClaims(split), net)

\* SciFactLoader.load: the claims, then the corpus when it is asked for.
SciFactLoader_load(fs, split, include_corpus, net) ==
    LET claims == SciFactLoader_load_claims(fs, split, net)
        corpus == SciFactLoader_load_corpus(claims.files, net)
    IN  IF claims.result.raised \/ ~include_corpus
        THEN IF claims.result.raised THEN claims
             ELSE [claims EXCEPT
                      !.result = Returned([claims |-> claims.result.value])]
        ELSE Done(corpus.files, claims.effects \o corpus.effects,
                  IF corpus.result.raised THEN corpus.result
                  ELSE Returned([claims |-> claims.result.value,
                                 corpus |-> corpus.result.value]))

\* ------------------------------------------------------------ the state

VARIABLES
    pc,         \* where the process is: boot, configured, ready, search,
                \* fetch, pmc, generate, done (unit: no process, a function
                \* called on its own; data: no process, a dataset loader)
    api_key,    \* the configured NCBI API key, None without one
    rag,        \* the orchestrator (BaseRAG): ollama_client and config
    op,         \* the operation in progress or just finished
    query,      \* argument of the call in progress
    top_k,      \* argument of the call in progress
    pmids,      \* get_papers: the identifier list of the search phase
    idx,        \* get_papers: position of the for loop in pmids (1-based)
    xml_text,   \* fetch_paper_details: the record text being processed
    papers,     \* get_papers: the records appended so far
    fetched,    \* per identifier handled so far: "ok" or "failed"
    requests,   \* every request issued to the external services, with time
    sleeps,     \* every time.sleep made, in milliseconds
    now,        \* the clock of the call in progress, in milliseconds
    latency,    \* the round trip of a request during the call in progress
    llm_calls,  \* every request handed to the generation backend
    fault,      \* the exception raised inside call_ollama's try, if any
    response,   \* the mapping call_ollama returned
    outcome,    \* what the finished operation returned or raised
    args,       \* a function called on its own: its name and arguments
    retval,     \* a function called on its own: what it returned
    loader,     \* the dataset loader constructed, if any
    files,      \* the loader's files below data_dir: absent, partial, complete
    effects     \* what the loader's last call did outside itself, in order

vars == <<pc, api_key, rag, op, query, top_k, pmids, idx, xml_text,
          papers, fetched, requests, sleeps, now, latency, llm_calls, fault,
          response, outcome, args, retval, loader, files, effects>>

\* The state of the process proper, and of a function called on its own.
process_vars == <<pc, api_key, rag, op, query, top_k, pmids, idx, xml_text,
                  papers, fetched, requests, sleeps, now, latency, llm_calls,
                  fault, response, outcome>>

unit_vars == <<args, retval>>

data_vars == <<loader, files, effects>>

NoLoader == [class |-> "none"]

\* No dataset loader has been constructed.
NoData == loader = NoLoader /\ files = <<>> /\ effects = <<>>

NoArgs == [fn |-> "none"]

\* A function called on its own has not returned yet, or returned v.
NoRetval == [done |-> FALSE]

Retval(v) == [done |-> TRUE, value |-> v]

NoRag == [ollama_client |-> NoClient, config |-> <<>>]

NoFault == [class |-> "none", msg |-> <<>>]

NoResponse == [pending |-> TRUE]

Pending == Returned(NoResponse)

call_vars == <<query, top_k, pmids, idx, xml_text, papers, fetched, requests,
               sleeps, now, latency, llm_calls, fault, response, outcome>>

\* The state no call has touched: every call starts from it.
FreshCall ==
    /\ pmids = <<>> /\ idx = 1 /\ xml_text = <<>> /\ papers = <<>>
    /\ fetched = <<>> /\ requests = <<>> /\ sleeps = <<>> /\ now = 0
    /\ latency = 0
    /\ llm_calls = <<>> /\ fault = NoFault /\ response = NoResponse
    /\ outcome = Pending

\* The process before it has done anything.
InitProcess ==
    /\ pc = "boot" /\ api_key = None /\ rag = NoRag
    /\ op = "none" /\ query = <<>> /\ top_k = 0
    /\ FreshCall

Init == InitProcess /\ args = NoArgs /\ retval = NoRetval /\ NoData

\* ------------------------------------------------------- process start-up

\* The one-time credential configuration step: a key selects the
\* authenticated tier, no key the anonymous one.
set_api_key(key) ==
    /\ pc = "boot"
    /\ api_key' = key
    /\ pc' = "configured"
    /\ UNCHANGED <<rag, op, call_vars>>
    /\ UNCHANGED <<unit_vars, data_vars>>

\* BaseRAG.__init__: keep the client given, else set one up.
BaseRAG_init(ollama_client, host, port) ==
    /\ pc \in {"boot", "configured"}
    /\ rag' = [ollama_client |-> IF ollama_client # NoClient THEN ollama_client
                                 ELSE setup_ollama_client(host, port),
               config |-> <<>>]
    /\ pc' = "ready"
    /\ UNCHANGED <<api_key, op, call_vars>>
    /\ UNCHANGED <<unit_vars, data_vars>>

\* ------------------------------------------------------------ get_papers

\* As if every request of a call were issued when the call starts, without
\* waiting for the one before it.
Request_AtCallStart(svc, id, retmax, ok) ==
    [svc |-> svc, id |-> id, retmax |-> retmax, at |-> 0, ok |-> ok]

\* One HTTP request as the log keeps it: the service, the id or term asked
\* for, the page size, the time it was issued, and whether it was answered
\* (ok) or raised a RequestException.
Request(svc, id, retmax, ok) ==
    [svc |-> svc, id |-> id, retmax |-> retmax, at |-> now, ok |-> ok]

\* As if the loop fetched the identifier it has just handled once more.
LoopOn_Again(next_idx) == idx' = next_idx - 1 /\ pc' = "fetch"

\* get_papers returns (to retrieve, and so to generate) or goes round its loop.
LoopOn(next_idx) ==
    /\ idx' = next_idx
    /\ pc' = IF next_idx > Len(pmids) THEN "generate" ELSE "fetch"

\* As if get_papers took a failure for "no result" and returned its list.
Propagate_ReturnEmpty(e) == pc' = "generate" /\ UNCHANGED outcome

\* A propagating exception ends the call in progress.
Propagate(e) == outcome' = Raised(e) /\ pc' = "done"

\* The try body of the loop of get_papers after fetch_paper_details returned:
\* append the record, sleep.
AppendAndSleep(paper) ==
    /\ papers' = Append(papers, paper)
    /\ fetched' = Append(fetched, "ok")
    /\ sleeps' = Append(sleeps, SleepMs)
    /\ LoopOn(idx + 1)

\* As if the request did not pass top_k on and asked for a fixed page size.
SearchParams_FixedPage(keyword, k) ==
    [db |-> "pubmed", term |-> keyword, retmax |-> 20, retmode |-> "json"]

\* The query parameters of the esearch request.
SearchParams(keyword, k) ==
    [db |-> "pubmed", term |-> keyword, retmax |-> k, retmode |-> "json"]

\* search_pubmed as get_papers calls it (lines 167-170 of get_papers
\* included): one esearch request with retmax = top_k.
search_pubmed(failure, answer) ==
    /\ pc = "search"
    /\ requests' = Append(requests,
                          Request("esearch", SearchParams(query, top_k).term,
                                  SearchParams(query, top_k).retmax,
                                  failure = NoFault))
    /\ answer \in esearch(SearchParams(query, top_k).term,
                          SearchParams(query, top_k).retmax)
    /\ now' = now + latency
    /\ IF failure # NoFault
       THEN /\ Propagate(Reraise(<<"Error searching PubMed: ">>, failure))
            /\ UNCHANGED <<pmids, idx>>
       ELSE /\ pmids' = answer
            /\ idx' = 1
            /\ pc' = IF answer = <<>> THEN "generate" ELSE "fetch"
            /\ UNCHANGED outcome
    /\ UNCHANGED <<api_key, rag, op, query, top_k, xml_text, papers,
                   fetched, sleeps, latency, llm_calls, fault, response>>
    /\ UNCHANGED <<unit_vars, data_vars>>

\* One iteration of the loop of get_papers, up to the availability check:
\* fetch_paper_details issues the efetch request; on a failure the except
\* clause of get_papers skips the identifier.
fetch_paper_details(failure, answer) ==
    /\ pc = "fetch" /\ idx <= Len(pmids)
    /\ requests' = Append(requests, Request("efetch", pmids[idx], 0, failure = NoFault))
    /\ IF failure # NoFault
       THEN LET e == Reraise(<<"Error fetching paper ">> \o pmids[idx] \o <<": ">>,
                             failure)
            IN  /\ now' = now + latency
                /\ IF GetPapersCatches(e)
                   THEN /\ fetched' = Append(fetched, "failed")
                        /\ LoopOn(idx + 1)
                        /\ UNCHANGED outcome
                   ELSE /\ Propagate(e)
                        /\ UNCHANGED <<fetched, idx>>
                /\ UNCHANGED <<xml_text, papers, sleeps>>
       ELSE IF Truthy(_extract_pmc_id(answer))
       THEN /\ xml_text' = answer
            /\ pc' = "pmc"
            /\ now' = now + latency
            /\ UNCHANGED <<idx, papers, fetched, sleeps, outcome>>
       ELSE /\ AppendAndSleep(PubMedPaper(pmids[idx], answer, FALSE))
            /\ now' = now + latency + SleepMs
            /\ UNCHANGED <<xml_text, outcome>>
    /\ UNCHANGED <<api_key, rag, op, query, top_k, pmids, latency,
                   llm_calls, fault, response>>
    /\ UNCHANGED <<unit_vars, data_vars>>

\* The rest of the iteration for a record with a PMC id: the availability
\* request, then the record is built, appended, and the loop sleeps.
pmc_availability(request_ok, has_article) ==
    /\ pc = "pmc"
    /\ requests' = Append(requests,
                          Request("pmc", _extract_pmc_id(xml_text), 0, request_ok))
    /\ AppendAndSleep(PubMedPaper(pmids[idx], xml_text,
                        check_pmc_availability(request_ok, has_article)))
    /\ now' = now + latency + SleepMs
    /\ xml_text' = <<>>
    /\ UNCHANGED <<api_key, rag, op, query, top_k, pmids, latency,
                   llm_calls, fault, response, outcome>>
    /\ UNCHANGED <<unit_vars, data_vars>>

\* -------------------------------------------------------------- generate

Models == {"llama2"}

Temperatures == {"0.7"}

\* BaseRAG.generate, line 139: the call starts by calling retrieve, which
\* runs get_papers(query, top_k).
generate(q, k, lat) ==
    /\ pc = "ready" /\ FreshCall
    /\ op' = "generate" /\ query' = q /\ top_k' = k /\ latency' = lat
    /\ pc' = "search"
    /\ UNCHANGED <<api_key, rag, pmids, idx, xml_text, papers,
                   fetched, requests, sleeps, now, llm_calls, fault, response,
                   outcome>>
    /\ UNCHANGED <<unit_vars, data_vars>>

\* The exception call_ollama's try block saw, if any.
FaultOf(client, setup, backend) ==
    IF client = NoClient /\ setup.raised THEN setup.exc
    ELSE IF backend.raised THEN backend.exc
    ELSE NoFault

\* Whether call_ollama reaches client.generate.
BackendReached(client, setup) == ~(client = NoClient /\ setup.raised)

\* BaseRAG.generate, lines 141-164, once retrieve has returned: build the
\* prompt, call the generation client, raise or return the payload.
generate_answer(model, temperature, backend) ==
    /\ pc = "generate"
    /\ LET contexts == retrieve(papers)
           prompt   == GeneratePrompt(query, contexts)
           result   == call_ollama(FALSE, rag.ollama_client,
                                   Returned(rag.ollama_client), backend)
       IN  /\ llm_calls' = Append(llm_calls,
                                  GenerateRequest(rag, prompt, model, temperature))
           /\ fault' = FaultOf(rag.ollama_client, Returned(rag.ollama_client),
                               backend)
           /\ response' = IF result.raised THEN NoResponse ELSE result.value
           /\ outcome' = IF result.raised THEN result
                         ELSE GenerateOutcome(result.value, query, contexts)
    /\ pc' = "done"
    /\ UNCHANGED <<api_key, rag, op, query, top_k, pmids, idx,
                   xml_text, papers, fetched, requests, sleeps, now, latency>>
    /\ UNCHANGED <<unit_vars, data_vars>>

\* call_ollama called on its own (as the examples do), with or without a
\* client, streaming or not.
call_ollama_direct(prompt, model, temperature, max_tokens, stream, client, setup, backend) ==
    /\ pc = "ready" /\ FreshCall
    /\ op' = "call_ollama" /\ query' = prompt
    /\ llm_calls' = IF BackendReached(client, setup)
                    THEN <<[model |-> model, prompt |-> prompt, system |-> None,
                            stream |-> stream,
                            options |-> Options(temperature, max_tokens),
                            client |-> ClientUsed(client, "localhost", "11434")]>>
                    ELSE <<>>
    /\ fault' = FaultOf(client, setup, backend)
    /\ LET result == call_ollama(stream, client, setup, backend)
       IN  /\ response' = IF result.raised THEN NoResponse ELSE result.value
           /\ outcome' = result
    /\ pc' = "done"
    /\ UNCHANGED <<api_key, rag, top_k, pmids, idx, xml_text, papers,
                   fetched, requests, sleeps, now, latency>>
    /\ UNCHANGED <<unit_vars, data_vars>>

\* As if the records of a call were kept (cached) for the calls after it.
Return_KeepsPapers ==
    /\ pc = "done"
    /\ pc' = "ready" /\ op' = "none" /\ query' = <<>> /\ top_k' = 0
    /\ pmids' = <<>> /\ idx' = 1 /\ xml_text' = <<>>
    /\ fetched' = <<>> /\ requests' = <<>> /\ sleeps' = <<>> /\ now' = 0
    /\ latency' = 0
    /\ llm_calls' = <<>> /\ fault' = NoFault /\ response' = NoResponse
    /\ outcome' = Pending
    /\ UNCHANGED <<api_key, rag, papers>>
    /\ UNCHANGED <<unit_vars, data_vars>>

\* The caller has the result; the next call starts from a fresh call state.
Return ==
    /\ pc = "done"
    /\ pc' = "ready" /\ op' = "none" /\ query' = <<>> /\ top_k' = 0
    /\ pmids' = <<>> /\ idx' = 1 /\ xml_text' = <<>> /\ papers' = <<>>
    /\ fetched' = <<>> /\ requests' = <<>> /\ sleeps' = <<>> /\ now' = 0
    /\ latency' = 0
    /\ llm_calls' = <<>> /\ fault' = NoFault /\ response' = NoResponse
    /\ outcome' = Pending
    /\ UNCHANGED <<api_key, rag>>
    /\ UNCHANGED <<unit_vars, data_vars>>

\* ---------------------------------------------------------- specification

ApiKeys == {None, <<"k3y">>}

MaxTokensValues == {NoMaxTokens, 0, 64}

SetupOutcomes ==
    {Returned(setup_ollama_client("localhost", "11434"))}
    \cup {Raised(e) : e \in SetupRaises}

Next ==
    \/ \E key \in ApiKeys : set_api_key(key)
    \/ \E c \in {NoClient, CallerClient} : BaseRAG_init(c, "localhost", "11434")
    \/ \E q \in Queries, k \in 1..MaxTopK, lat \in Latencies : generate(q, k, lat)
    \/ \E e \in RequestFaults : search_pubmed(e, <<>>)
    \/ \E ids \in esearch(query, Cardinality(Pmids)) : search_pubmed(NoFault, ids)
    \/ \E e \in RequestFaults \cup OtherFaults : fetch_paper_details(e, <<>>)
    \/ \E doc \in SampleDocs : fetch_paper_details(NoFault, doc)
    \/ \E ok \in BOOLEAN, art \in BOOLEAN : pmc_availability(ok, art)
    \/ \E m \in Models, t \in Temperatures, b \in BackendOutcomes :
         generate_answer(m, t, b)
    \/ \E q \in Queries, m \in Models, t \in Temperatures,
          mt \in MaxTokensValues, st \in BOOLEAN,
          c \in {NoClient, CallerClient}, su \in SetupOutcomes,
          b \in BackendOutcomes :
         call_ollama_direct(q, m, t, mt, st, c, su, b)
    \/ Return

Spec == Init /\ [][Next]_vars

\* The process is one thread that runs on: a step that can be taken is taken
\* (every network call returns or times out, timeout=10 in pubmed.py).
SpecLive == Spec /\ WF_vars(Next)

\* ------------------------------------------ functions called on their own

\* Most author entries in a record text.
MaxAuthors == 2

LastNames == {None, <<"Doe">>, <<"Roe">>}

ForeNames == {None, <<"Jane">>}

\* What an Author element of a record can carry: a family name or none (a
\* collective author), a given name or none.
AuthorEntries == [last : LastNames, fore : ForeNames]

RECURSIVE AuthorLists(_)
AuthorLists(n) ==
    IF n = 0 THEN {<<>>}
    ELSE AuthorLists(n - 1)
         \cup {Append(es, e) : es \in {l \in AuthorLists(n - 1) : Len(l) = n - 1},
                               e \in AuthorEntries}

\* The markup of one Author element.
AuthorXml(e) ==
    <<"<Author>">>
    \o (IF e.last # None THEN <<"<LastName>">> \o e.last \o <<"</LastName>">>
        ELSE <<"<CollectiveName>", "Group", "</CollectiveName>">>)
    \o (IF e.fore # None THEN <<"<ForeName>">> \o e.fore \o <<"</ForeName>">>
        ELSE <<>>)
    \o <<"</Author>">>

RECURSIVE AuthorListXml(_)
AuthorListXml(es) ==
    IF es = <<>> THEN <<>> ELSE AuthorXml(Head(es)) \o AuthorListXml(Tail(es))

\* The parts of a record text that can be there or not.
RecordFields == {"ArticleTitle", "AbstractText", "Title", "Year", "Month",
                 "doi", "pmc"}

Element(tag, text) == <<"<" \o tag \o ">", text, "</" \o tag \o ">">>

\* A record text holding the parts in present and the author entries es.
RecordXml(present, es) ==
    LET Opt(f, xml) == IF f \in present THEN xml ELSE <<>>
    IN  Opt("Title", Element("Title", "Lancet"))
        \o Opt("Year", Element("Year", "2020"))
        \o Opt("Month", Element("Month", "Jan"))
        \o Opt("ArticleTitle", Element("ArticleTitle", "Trial"))
        \o Opt("AbstractText", Element("AbstractText", "Background"))
        \o AuthorListXml(es)
        \o ArticleId("pubmed", "111")
        \o Opt("doi", ArticleId("doi", "10.1/x"))
        \o Opt("pmc", ArticleId("pmc", "PMC77"))

AuthorsInputs ==
    {[fn |-> "_extract_authors", entries |-> es, xml_text |-> AuthorListXml(es)] :
        es \in AuthorLists(MaxAuthors)}

RecordInputs ==
    {[fn |-> "fetch_paper_details", present |-> pr, entries |-> es,
      xml_text |-> RecordXml(pr, es)] :
        pr \in SUBSET RecordFields, es \in AuthorLists(MaxAuthors)}

\* _extract_authors applied to a text.
apply_extract_authors ==
    /\ args.fn = "_extract_authors" /\ ~retval.done
    /\ retval' = Retval(_extract_authors(args.xml_text))
    /\ UNCHANGED <<args, process_vars, data_vars>>

\* fetch_paper_details from the response text on (lines 94-143): the parsing,
\* the availability check for a record with a PMC id, the record.
parse_record(request_ok, has_article) ==
    /\ args.fn = "fetch_paper_details" /\ ~retval.done
    /\ retval' = Retval(PubMedPaper(<<"111">>, args.xml_text,
                     IF Truthy(_extract_pmc_id(args.xml_text))
                     THEN check_pmc_availability(request_ok, has_article)
                     ELSE FALSE))
    /\ UNCHANGED <<args, process_vars, data_vars>>

\* Most contexts handed to the prompt assembler.
MaxContexts == 2

Contents == {<<"alpha">>, <<"beta", "\n", "gamma">>}

\* A context's source: none, an empty string, a name.
Sources == {None, <<>>, <<"pubmed">>}

ContextSamples == {RAGContext(c, <<>>, None, src) : c \in Contents, src \in Sources}

RECURSIVE ContextLists(_)
ContextLists(n) ==
    IF n = 0 THEN {<<>>}
    ELSE ContextLists(n - 1)
         \cup {Append(cs, c) : cs \in {l \in ContextLists(n - 1) : Len(l) = n - 1},
                               c \in ContextSamples}

PromptInputs ==
    {[fn |-> "_build_prompt", query |-> q, contexts |-> cs] :
        q \in Queries, cs \in ContextLists(MaxContexts)}

\* BaseRAG._build_prompt applied to a query and a context list.
apply_build_prompt ==
    /\ args.fn = "_build_prompt" /\ ~retval.done
    /\ retval' = Retval(_build_prompt(args.query, args.contexts))
    /\ UNCHANGED <<args, process_vars, data_vars>>

OptionsInputs ==
    {[fn |-> "call_ollama", temperature |-> t, max_tokens |-> mt] :
        t \in Temperatures, mt \in MaxTokensValues}

\* call_ollama, lines 61-64: the options it builds for the backend call.
apply_options ==
    /\ args.fn = "call_ollama" /\ ~retval.done
    /\ retval' = Retval(Options(args.temperature, args.max_tokens))
    /\ UNCHANGED <<args, process_vars, data_vars>>

UnitInputs == AuthorsInputs \cup RecordInputs \cup PromptInputs \cup OptionsInputs

\* A function about to be called on its own, outside any process run.
InitUnit ==
    /\ pc = "unit" /\ api_key = None /\ rag = NoRag
    /\ op = "none" /\ query = <<>> /\ top_k = 0
    /\ FreshCall
    /\ args \in UnitInputs /\ retval = NoRetval
    /\ NoData

NextUnit ==
    \/ apply_extract_authors
    \/ \E ok \in BOOLEAN, art \in BOOLEAN : parse_record(ok, art)
    \/ apply_build_prompt
    \/ apply_options

SpecUnit == InitUnit /\ [][NextUnit]_vars

\* ------------------------------------------------------ dataset loaders

LoaderClasses == {"HealthVerLoader", "PubHealthLoader", "SciFactLoader"}

\* What may lie below data_dir when a loader is constructed: files fetched
\* or put there earlier.  For PubHealth, the archive and the train split.
InitialFiles(class) ==
    {fs \in [LoaderPaths(class) -> {"absent", "complete"}] :
        class = "PubHealthLoader" =>
            \A p \in LoaderPaths(class) :
                \/ p = PubHealthZip
                \/ \E k \in 1..3 : p = PubHealthPaths("train")[k]
                \/ fs[p] = "absent"}

\* The downloads a loader of each class makes with download_file.
Downloads(class) ==
    IF class = "HealthVerLoader"
    THEN {<<HealthVerUrl(ValidSplits[i]), HealthVerPath(ValidSplits[i])>> :
             i \in 1..Len(ValidSplits)}
    ELSE IF class = "SciFactLoader" THEN {<<SciFactUrl, SciFactTar>>}
    ELSE {}

\* loader.download_file(url, output_path)
call_download_file(url, output_path, net) ==
    /\ pc = "data"
    /\ <<url, output_path>> \in Downloads(loader.class)
    /\ LET r == download_file(files, url, output_path, net)
       IN  /\ args' = [fn |-> "download_file", url |-> url,
                       output_path |-> output_path, before |-> files]
           /\ files' = r.files
           /\ effects' = r.effects
           /\ retval' = Retval(r.result)
    /\ UNCHANGED <<loader, process_vars>>

\* HealthVerLoader(data_dir).load(split)
call_healthver_load(split, nets) ==
    /\ pc = "data"
    /\ loader.class = "HealthVerLoader"
    /\ LET r == HealthVerLoader_load(files, split, nets)
       IN  /\ args' = [fn |-> "load", split |-> split, before |-> files]
           /\ files' = r.files
           /\ effects' = r.effects
           /\ retval' = Retval(r.result)
    /\ UNCHANGED <<loader, process_vars>>

\* PubHealthLoader(data_dir).load(split)
call_pubhealth_load(split, gd, zp) ==
    /\ pc = "data"
    /\ loader.class = "PubHealthLoader"
    /\ LET r == PubHealthLoader_load(files, split, gd, zp)
       IN  /\ args' = [fn |-> "load", split |-> split, before |-> files]
           /\ files' = r.files
           /\ effects' = r.effects
           /\ retval' = Retval(r.result)
    /\ UNCHANGED <<loader, process_vars>>

\* SciFactLoader(data_dir).download()
call_scifact_download(net) ==
    /\ pc = "data"
    /\ loader.class = "SciFactLoader"
    /\ LET r == SciFactLoader_download(files, net)
       IN  /\ args' = [fn |-> "download", before |-> files]
           /\ files' = r.files
           /\ effects' = r.effects
           /\ retval' = Retval(r.result)
    /\ UNCHANGED <<loader, process_vars>>

\* SciFactLoader(data_dir).load(split, include_corpus)
call_scifact_load(split, include_corpus, net) ==
    /\ pc = "data"
    /\ loader.class = "SciFactLoader"
    /\ LET r == SciFactLoader_load(files, split, include_corpus, net)
       IN  /\ args' = [fn |-> "load", split |-> split,
                       include_corpus |-> include_corpus, before |-> files]
           /\ files' = r.files
           /\ effects' = r.effects
           /\ retval' = Retval(r.result)
    /\ UNCHANGED <<loader, process_vars>>

\* A loader just constructed over some data_dir, outside any process run.
InitData ==
    /\ pc = "data" /\ api_key = None /\ rag = NoRag
    /\ op = "none" /\ query = <<>> /\ top_k = 0
    /\ FreshCall
    /\ args = NoArgs /\ retval = NoRetval
    /\ \E class \in LoaderClasses :
           /\ loader = [class |-> class]
           /\ files \in InitialFiles(class)
    /\ effects = <<>>

NextData ==
    \/ \E d \in UNION {Downloads(class) : class \in LoaderClasses},
          net \in NetOutcomes :
          call_download_file(d[1], d[2], net)
    \/ \E split \in SplitNames, nets \in [SplitSet -> NetOutcomes] :
          call_healthver_load(split, nets)
    \/ \E split \in SplitNames, gd \in GdownOutcomes, zp \in ZipContents :
          call_pubhealth_load(split, gd, zp)
    \/ \E net \in NetOutcomes : call_scifact_download(net)
    \/ \E split \in SplitNames, include_corpus \in BOOLEAN, net \in NetOutcomes :
          call_scifact_load(split, include_corpus, net)

SpecData == InitData /\ [][NextData]_vars

\* The process and the functions called on their own, side by side.
InitAll == Init \/ InitUnit

NextAll == Next \/ NextUnit

SpecAll == InitAll /\ [][NextAll]_vars

\* ----------------------------------------------------------------- claims

\* get_papers has returned its list to retrieve.
GetPapersReturned == op = "generate" /\ pc = "generate"

\* generate has ended, by a return or a raise.
GenerateEnded == op = "generate" /\ pc = "done"

PaperIds == [i \in 1..Len(papers) |-> papers[i].pmid]

RequestIds(svc) ==
    LET hits == SelectSeq(requests, LAMBDA r : r.svc = svc)
    IN  [i \in 1..Len(hits) |-> hits[i].id]

\* The identifiers of ids whose entry in log is "ok", in order.
RECURSIVE OkIds(_, _)
OkIds(ids, log) ==
    IF ids = <<>> \/ log = <<>> THEN <<>>
    ELSE (IF Head(log) = "ok" THEN <<Head(ids)>> ELSE <<>>)
         \o OkIds(Tail(ids), Tail(log))

NumFailed == Len(SelectSeq(fetched, LAMBDA f : f = "failed"))

RECURSIVE IsSubseq(_, _)
IsSubseq(s, t) ==
    IF s = <<>> THEN TRUE
    ELSE IF t = <<>> THEN FALSE
    ELSE IF Head(s) = Head(t) THEN IsSubseq(Tail(s), Tail(t))
    ELSE IsSubseq(s, Tail(t))

\* C1: whatever subset of the n identifiers fails to fetch or parse,
\* get_papers raises nothing and returns exactly the n-k records of the
\* identifiers that succeeded, and every identifier after a failed one is
\* still fetched.  (The only exception that leaves get_papers is the search
\* phase's, raised before any detail fetch.)
C1_SkipAndContinue ==
    /\ GetPapersReturned =>
         /\ Len(fetched) = Len(pmids)
         /\ RequestIds("efetch") = pmids
         /\ Len(papers) = Len(pmids) - NumFailed
         /\ PaperIds = OkIds(pmids, fetched)
    /\ (GenerateEnded /\ outcome.raised /\ llm_calls = <<>>) =>
         (fetched = <<>> /\ RequestIds("efetch") = <<>>)

\* A failed identifier followed by a fetched one.
C1_Witness ==
    GetPapersReturned /\ fetched = <<"failed", "ok">> /\ Len(papers) = 1

\* C2: the list get_papers returns is no longer than top_k, and its
\* identifiers are a subsequence of the search phase's list: same relative
\* order, nothing repeated that the search did not repeat.
C2_AtMostTopKInOrder ==
    GetPapersReturned =>
        /\ Len(papers) <= top_k
        /\ IsSubseq(PaperIds, pmids)
        /\ NoRepeat(pmids) => NoRepeat(PaperIds)

\* top_k records returned, in the search's order.
C2_Witness ==
    GetPapersReturned /\ top_k = 2 /\ Len(papers) = 2 /\ PaperIds = pmids

\* C3: when the generation client's result carries an error marker,
\* generate raises a failure whose message carries the client's message and
\* returns no payload; the client itself hands the error back as a value.
C3_ErrorEscalatedInGenerate ==
    /\ (GenerateEnded /\ "error" \in DOMAIN response) =>
         /\ outcome.raised
         /\ outcome.exc.msg = <<"Error generating answer: ">> \o response.error
    /\ (op = "call_ollama" /\ pc = "done" /\ "error" \in DOMAIN response) =>
         (~outcome.raised /\ outcome.value = response)

\* generate ended on a result with an error marker.
C3_Witness == GenerateEnded /\ "error" \in DOMAIN response /\ outcome.raised

\* C4 (as claimed): every generate call that ends has handed the generation
\* client one prompt for the query, whether retrieval gave contexts, gave
\* none, or failed.
C4_GenerationAlwaysAttempted ==
    GenerateEnded =>
        /\ Len(llm_calls) = 1
        /\ IsSubseq(query, llm_calls[1].prompt)

\* The search phase gave no identifier (and did not fail).
ZeroIds ==
    /\ op = "generate" /\ pmids = <<>>
    /\ \/ pc = "generate"
       \/ pc = "done" /\ llm_calls # <<>>

\* The part of C5 on the retrieval and the prompt: no detail fetch, an empty
\* list, the bare prompt and not the assembler's, zero contexts in the payload.
C5_NoFetchBarePrompt ==
    ZeroIds =>
        /\ papers = <<>>
        /\ RequestIds("efetch") = <<>> /\ RequestIds("pmc") = <<>>
        /\ pc = "done" =>
             /\ Len(llm_calls) = 1
             /\ llm_calls[1].prompt = <<"Question: ">> \o query \o <<"\n\n", "Answer:">>
             /\ ~outcome.raised =>
                  (outcome.value.contexts = <<>> /\ outcome.value.num_contexts = 0)

\* C5 (as claimed): with zero identifiers there is no detail fetch, the bare
\* prompt is sent, and a generation that succeeds gives a non-empty answer
\* with zero contexts.
C5_ZeroIdsNonEmptyAnswer ==
    /\ C5_NoFetchBarePrompt
    /\ (ZeroIds /\ pc = "done" /\ ~outcome.raised) => outcome.value.answer # <<>>

\* C5 (amended): with zero identifiers there is no detail fetch, the bare
\* prompt is sent, and a generation that succeeds gives zero contexts and an
\* answer that is non-empty unless the backend's own response text is empty.
C5_ZeroIdsBarePrompt ==
    /\ C5_NoFetchBarePrompt
    /\ (ZeroIds /\ pc = "done" /\ ~outcome.raised /\ outcome.value.answer = <<>>) =>
         ("response" \in DOMAIN response /\ response.response = <<>>)

\* Zero identifiers, generation succeeded with a non-empty answer.
C5_Witness ==
    /\ ZeroIds /\ pc = "done" /\ ~outcome.raised
    /\ outcome.value.answer # <<>> /\ outcome.value.num_contexts = 0
    /\ Len(requests) = 1

\* C6: call_ollama never raises for a failure of client construction or of
\* the backend call: its result carries an error entry with the failure's
\* message (and no response entry), also when generate is the caller.
C6_ClientNeverRaises ==
    /\ (op = "call_ollama" /\ pc = "done") =>
         /\ ~outcome.raised
         /\ fault # NoFault =>
              /\ "error" \in DOMAIN response /\ "response" \notin DOMAIN response
              /\ response.error = <<"Ollama error: ">> \o fault.msg
              /\ fault.msg # <<>>
    /\ (GenerateEnded /\ fault # NoFault) => "error" \in DOMAIN response

\* call_ollama called on its own, the backend unreachable.
C6_Witness ==
    /\ op = "call_ollama" /\ pc = "done" /\ fault.class = "ConnectionError"
    /\ "error" \in DOMAIN response

\* C7 (as claimed): generate ends in a raise or in a payload whose answer is
\* the text the backend produced, never a stand-in.
C7_AnswerIsBackendText ==
    GenerateEnded =>
        \/ outcome.raised
        \/ /\ "response" \in DOMAIN response
           /\ outcome.value.answer = response.response

\* The times at which the detail fetches of the call were issued.
FetchTimes ==
    LET hits == SelectSeq(requests, LAMBDA r : r.svc = "efetch")
    IN  [i \in 1..Len(hits) |-> hits[i].at]

\* C8 (as claimed): under the anonymous tier any two consecutive detail
\* fetches are issued at least 340 ms apart, whichever of them fail.
C8_AnonymousSpacing ==
    api_key = None =>
        \A i \in 1..(Len(FetchTimes) - 1) :
            FetchTimes[i + 1] - FetchTimes[i] >= 340

\* C9 (as claimed): the delay of the fetch phase is 110 ms when an API key
\* is configured and 340 ms otherwise.
C9_DelayByTier ==
    \A i \in 1..Len(sleeps) :
        sleeps[i] = IF api_key # None THEN 110 ELSE 340

\* C10 (as claimed): the access URL of every record is the DOI link, else
\* the full-text-repository link, else the primary-database link of the
\* record's own id, as get_paper_url gives for the same three values.
C10_UrlPriority ==
    \A i \in 1..Len(papers) :
        /\ papers[i].paper_url
             = get_paper_url(papers[i].pmid, papers[i].doi, papers[i].pmc_id)
        /\ papers[i].paper_url # None

\* The availability requests issued so far, in order.
PmcRequests == SelectSeq(requests, LAMBDA r : r.svc = "pmc")

\* The records built so far that carry a full-text-repository id, in order.
WithPmcId == SelectSeq(papers, LAMBDA p : Truthy(p.pmc_id))

\* C11: a record is marked freely available only if it carries a
\* full-text-repository id and the availability request for that id was
\* answered; a record whose id is absent or empty is marked not available and
\* no availability request is issued for it (the requests issued are exactly
\* those of the records that carry an id, one each, in order).
C11_FreeOnlyIfChecked ==
    /\ _extract_pmc_id(DocEmptyPmc) = None
    /\ Len(PmcRequests) = Len(WithPmcId)
    /\ \A i \in 1..Len(papers) :
          ~Truthy(papers[i].pmc_id) => ~papers[i].is_free_in_pmc
    /\ \A j \in 1..Len(WithPmcId) :
          /\ j <= Len(PmcRequests)
          /\ PmcRequests[j].id = WithPmcId[j].pmc_id
          /\ WithPmcId[j].is_free_in_pmc => PmcRequests[j].ok

\* get_papers returned a record without an id, unchecked and not marked, and
\* a record with an id that the check found available.
C11_Witness ==
    /\ GetPapersReturned
    /\ Len(PmcRequests) = 1
    /\ \E i, j \in 1..Len(papers) :
          /\ ~Truthy(papers[i].pmc_id) /\ ~papers[i].is_free_in_pmc
          /\ Truthy(papers[j].pmc_id) /\ papers[j].is_free_in_pmc

\* C12: a failed availability request is not fatal: the record it was made
\* for is built all the same, is in the list get_papers returns, and is
\* marked not available; one availability request is made per record that
\* carries an id.
C12_CheckFailureNotFatal ==
    /\ Len(PmcRequests) = Len(WithPmcId)
    /\ \A j \in 1..Len(PmcRequests) :
          ~PmcRequests[j].ok =>
              /\ j <= Len(WithPmcId)
              /\ WithPmcId[j].pmc_id = PmcRequests[j].id
              /\ ~WithPmcId[j].is_free_in_pmc
    /\ pc = "pmc" => Truthy(_extract_pmc_id(xml_text))
    /\ GetPapersReturned => Len(papers) = Len(SelectSeq(fetched, LAMBDA f : f = "ok"))

\* get_papers returned a list holding a record whose availability request
\* failed.
C12_Witness ==
    /\ GetPapersReturned
    /\ \E j \in 1..Len(PmcRequests) :
          ~PmcRequests[j].ok /\ ~WithPmcId[j].is_free_in_pmc

\* The name the author entry e stands for: the family name alone, or the
\* given name, a space, the family name.
NameOf(e) == IF e.fore = None THEN e.last ELSE e.fore \o <<" ">> \o e.last

\* C13: _extract_authors gives one name per author entry, in document order,
\* each made of that entry's own fields only (the family name alone when the
\* entry has no given name, given name then family name when it has both),
\* and ["Unknown"] for a text without author markup.
C13_OneNamePerEntry ==
    (/\ args.fn = "_extract_authors" /\ retval.done
     /\ \A i \in 1..Len(args.entries) : args.entries[i].last # None)
    => retval.value = IF args.entries = <<>> THEN << <<"Unknown">> >>
                      ELSE [i \in 1..Len(args.entries) |-> NameOf(args.entries[i])]

\* fetch_paper_details has built a record from the text in args.
RecordBuilt == args.fn = "fetch_paper_details" /\ retval.done

\* C14: every record fetch_paper_details builds has at least one author,
\* whatever the record text holds.
C14_AuthorsNeverEmpty == RecordBuilt => Len(retval.value.authors) >= 1

\* A record built from a text without a single author name: no Author
\* element at all, or collective authors only.
C14_Witness ==
    /\ RecordBuilt
    /\ \A i \in 1..Len(args.entries) : args.entries[i].last = None
    /\ retval.value.authors = << <<"Unknown">> >>

\* C15: whichever parts of the record text are absent, the record is built
\* and each absent part has its default: the abstract and the journal a
\* placeholder text, the publication date a placeholder when the year is
\* absent, the DOI and the PMC id None.
C15_AbsentFieldDefaults ==
    RecordBuilt =>
        /\ "AbstractText" \notin args.present =>
               retval.value.abstract = <<"No abstract available">>
        /\ "Title" \notin args.present => retval.value.journal # <<>>
        /\ "Year" \notin args.present =>
               retval.value.publication_date = <<"Unknown">>
        /\ "doi" \notin args.present => retval.value.doi = None
        /\ "pmc" \notin args.present => retval.value.pmc_id = None

\* _build_prompt has returned the prompt for the query and contexts in args.
PromptBuilt == args.fn = "_build_prompt" /\ retval.done

\* The block the claim describes for the i-th context c: the heading with
\* its number, the source if c has one, the content.
ContextBlock(i, c) ==
    <<"Context ", ToString(i)>>
    \o (IF c.source # None /\ c.source # <<>>
        THEN <<" (Source: ">> \o c.source \o <<")">> ELSE <<>>)
    \o <<":", "\n">> \o c.content

\* C16: the prompt holds the contexts in input order as blocks headed
\* 'Context 1' .. 'Context n', each with its content and with its source
\* exactly when it has one, consecutive blocks one blank line apart; the
\* blocks are followed by the frame, and the prompt ends with
\* 'Question: <query>', a blank line and 'Answer:'.
C16_PromptLayout ==
    PromptBuilt =>
        LET prompt == retval.value
            blocks == Join([i \in 1..Len(args.contexts) |->
                               ContextBlock(i, args.contexts[i])], <<"\n\n">>)
            frame  == <<"\n\n", "Question: ">> \o args.query \o <<"\n\n", "Answer:">>
            rest   == Len(blocks) + Len(frame)
            n      == Len(prompt)
        IN  /\ n >= rest
            /\ SubSeq(prompt, n - rest + 1, n) = blocks \o frame
            /\ \A k \in 1..(n - rest) : prompt[k] # "Context "

\* A prompt built from two different contexts, the first with a source and
\* the second without.
C16_Witness ==
    /\ PromptBuilt
    /\ Len(args.contexts) = 2
    /\ args.contexts[1].content # args.contexts[2].content
    /\ args.contexts[1].source = <<"pubmed">>
    /\ args.contexts[2].source = None

\* generate returned a payload.
GenerateReturned == GenerateEnded /\ ~outcome.raised

\* C18: the payload generate returns holds the answer text (the backend's
\* response text when it sent one), the context list as retrieve returned
\* it, the query as it was passed, and the length of that list as the count.
C18_PayloadFields ==
    GenerateReturned =>
        /\ DOMAIN outcome.value = {"answer", "contexts", "query", "num_contexts"}
        /\ "response" \in DOMAIN response => outcome.value.answer = response.response
        /\ outcome.value.contexts = retrieve(papers)
        /\ outcome.value.query = query
        /\ outcome.value.num_contexts = Len(papers)

\* generate returned a payload over two contexts with the backend's text.
C18_Witness ==
    /\ GenerateReturned
    /\ Len(papers) = 2
    /\ "response" \in DOMAIN response
    /\ outcome.value.answer = response.response
    /\ outcome.value.num_contexts = 2

\* call_ollama, called on its own, has ended.
CallOllamaEnded == op = "call_ollama" /\ pc = "done"

\* What client.generate handed back in a call that raised nothing.
BackendValue ==
    IF "stream" \in DOMAIN response THEN response.stream ELSE response

\* C19: whatever its arguments (streaming or not, a client given or not),
\* call_ollama returns a mapping that holds exactly one of the keys
\* 'response' and 'error' (here even with a backend that, whenever it
\* answers, sends response text).
C19_ExactlyOneOfResponseError ==
    (/\ CallOllamaEnded
     /\ fault = NoFault => "response" \in DOMAIN BackendValue)
    => /\ ~outcome.raised
       /\ ("response" \in DOMAIN outcome.value) # ("error" \in DOMAIN outcome.value)

\* The orchestrator was constructed with the caller's client.
Borrowing == rag.ollama_client = CallerClient

\* C20: an orchestrator constructed with a client of the caller's borrows
\* it: every generate hands that very handle to the backend call, never one
\* it constructed, and nothing after construction replaces or releases the
\* handle the orchestrator holds.
C20_SuppliedClientBorrowed ==
    /\ [](Borrowing /\ op = "generate" =>
             \A i \in 1..Len(llm_calls) : llm_calls[i].client = CallerClient)
    /\ [][Borrowing => rag' = rag]_vars

\* A generate of an orchestrator holding the caller's client reached the
\* backend.
C20_Witness ==
    /\ Borrowing /\ GenerateEnded
    /\ Len(llm_calls) = 1
    /\ llm_calls[1].client = CallerClient

\* The orchestrator set up its own client at construction.
Owning == rag.ollama_client.kind = "constructed"

\* C21: a client the orchestrator constructed itself is released in the
\* end: whenever the orchestrator holds one, a state follows in which that
\* handle is closed, and no backend call uses a closed handle.
C21_OwnedHandleReleased ==
    /\ Owning ~> rag.ollama_client.closed
    /\ [](\A i \in 1..Len(llm_calls) : ~llm_calls[i].client.closed)

\* C22: a generate call, returning or raising, leaves the orchestrator's
\* configuration and client handle and the configured key as they were, and
\* keeps nothing of its own: once it is over, the state every call starts
\* from is the state no call has touched, so a call can be made again in
\* full.
C22_CallsIndependent ==
    /\ [][pc \notin {"boot", "configured"} => rag' = rag /\ api_key' = api_key]_vars
    /\ [](pc = "ready" => FreshCall)

\* A generate call of an orchestrator with the caller's client has raised,
\* after fetching a record, and the orchestrator is as construction left it.
C22_Witness ==
    /\ GenerateEnded /\ outcome.raised
    /\ papers # <<>>
    /\ rag = [ollama_client |-> CallerClient, config |-> <<>>]

\* C24: the requests of a call are made one after another: each is issued
\* only when the one before it has been answered or has failed (it is under
\* way from its issue time for the round trip), the detail fetches go
\* through the identifiers in order, and the availability request of a
\* record comes right after its detail fetch, before the next one.
C24_FetchSequential ==
    /\ \A i \in 1..(Len(requests) - 1) :
          requests[i + 1].at >= requests[i].at + latency
    /\ RequestIds("efetch") = SubSeq(pmids, 1, Len(RequestIds("efetch")))
    /\ \A i \in 1..Len(requests) :
          requests[i].svc = "pmc" => i > 1 /\ requests[i - 1].svc = "efetch"
    /\ pc = "pmc" => requests[Len(requests)].id = pmids[idx]
    /\ pc = "fetch" => Len(RequestIds("efetch")) = idx - 1

\* With a round trip of 50 ms: a search, a detail fetch, its availability
\* request, and the next detail fetch.
C24_Witness ==
    /\ latency = 50
    /\ Len(requests) = 4
    /\ requests[3].svc = "pmc"
    /\ requests[4].svc = "efetch"
    /\ requests[4].at >= requests[3].at + 50

\* C25: call_ollama passes the length limit on (as num_predict, with the
\* value given) exactly when the caller set max_tokens, whatever integer it
\* set; when max_tokens was not set, the options hold no limit at all.
C25_LimitPassedIffSet ==
    (args.fn = "call_ollama" /\ retval.done) =>
        IF args.max_tokens # NoMaxTokens
        THEN /\ "num_predict" \in DOMAIN retval.value
             /\ retval.value.num_predict = args.max_tokens
        ELSE "num_predict" \notin DOMAIN retval.value

\* The search request of the call failed.
SearchFailed == requests # <<>> /\ requests[1].svc = "esearch" /\ ~requests[1].ok

\* C26: a failed search request is not recovered: search_pubmed raises,
\* and the failure leaves get_papers (and the call that ran it) with no
\* detail fetch issued and no list, empty or not, returned.
C26_SearchFailurePropagates ==
    SearchFailed =>
        /\ pc = "done" /\ outcome.raised
        /\ outcome.exc.class = "Exception"
        /\ Head(outcome.exc.msg) = "Error searching PubMed: "
        /\ Len(requests) = 1
        /\ papers = <<>> /\ fetched = <<>>

\* A generate call whose search request failed has ended.
C26_Witness == SearchFailed /\ GenerateEnded /\ outcome.raised

\* C27: a generate call retries nothing: it runs retrieve once (one search
\* request), get_papers fetches each identifier at most once, failed or not,
\* and the backend is called at most once, and only after get_papers has
\* gone through all the identifiers and returned.
C27_NoRetry ==
    op = "generate" =>
        /\ Len(RequestIds("esearch")) = (IF pc = "search" THEN 0 ELSE 1)
        /\ NoRepeat(RequestIds("efetch"))
        /\ Len(RequestIds("efetch")) <= Len(pmids)
        /\ Len(llm_calls) <= 1
        /\ llm_calls # <<>> => pc = "done" /\ Len(fetched) = Len(pmids)

\* A generate call over two identifiers, one of whose fetches failed, has
\* called the backend and ended.
C27_Witness ==
    /\ GenerateEnded
    /\ Len(pmids) = 2 /\ NumFailed = 1
    /\ Len(RequestIds("efetch")) = 2
    /\ Len(llm_calls) = 1

\* _extract_authors has returned the names of the text in args.
AuthorsExtracted == args.fn = "_extract_authors" /\ retval.done

\* The closing author tags of a text.
ClosingAuthorTags(text) == Len(SelectSeq(text, LAMBDA t : t = "</Author>"))

\* get_papers is under way.
InGetPapers == pc \in {"search", "fetch", "pmc"}

\* What get_papers still has to do at most: two steps (the fetch and the
\* availability request) per identifier left, counted before the search
\* from the most identifiers the search can answer.
GetPapersVariant ==
    IF pc = "search" THEN 2 * Cardinality(Pmids) + 1
    ELSE IF pc = "fetch" THEN 2 * (Len(pmids) - idx + 1)
    ELSE IF pc = "pmc" THEN 2 * (Len(pmids) - idx + 1) - 1
    ELSE 0

\* get_papers can take its next step.  The search and the availability
\* request can always be made (and answered, or fail by timing out); the
\* fetch step needs an identifier that is still to be handled.
GetPapersCanStep == pc = "fetch" => idx <= Len(pmids)

\* C30: _extract_authors ends on every text: a pass of its loop stops or
\* leaves a strictly shorter text, and it makes at most one pass more than
\* the text has closing author tags.  get_papers ends on every identifier
\* list: while it runs a step can always be taken (every request is
\* answered or fails), and every step brings it nearer its end.
C30_Terminates ==
    /\ [](AuthorsExtracted =>
             /\ AuthorsShrinks(args.xml_text)
             /\ AuthorsIterations(args.xml_text)
                    <= ClosingAuthorTags(args.xml_text) + 1)
    /\ [](InGetPapers => GetPapersVariant > 0 /\ GetPapersCanStep)
    /\ [][InGetPapers => GetPapersVariant' < GetPapersVariant]_vars

\* _extract_authors has ended on a text with two author entries after one
\* pass more than the text has closing author tags.
C30_Witness ==
    /\ AuthorsExtracted
    /\ ClosingAuthorTags(args.xml_text) = 2
    /\ AuthorsIterations(args.xml_text) = 3
    /\ Len(retval.value) = 2


\* ---------------------------------------------------------- loader claims

LoadEnded == pc = "data" /\ args.fn = "load" /\ retval.done

\* C23: load with a split name outside train, dev, test, on the HealthVer,
\* PubHealth or SciFact loader, raises ValueError at once: the call has
\* made no download, no extraction and no file read, has not called
\* download(), and has left every file as it was.
C23_InvalidSplitFailsAtOnce ==
    (LoadEnded /\ ~IsValidSplit(args.split)) =>
        /\ retval.value.raised
        /\ retval.value.exc = InvalidSplit(args.split)
        /\ retval.value.exc.class = "ValueError"
        /\ effects = <<>>
        /\ files = args.before

\* The HealthVer loader, none of its files there, asked for "validation".
C23_Witness ==
    /\ LoadEnded /\ loader.class = "HealthVerLoader"
    /\ args.split = "validation"
    /\ \A p \in DOMAIN args.before : args.before[p] = "absent"
    /\ retval.value.raised /\ retval.value.exc.class = "ValueError"
    /\ effects = <<>>


DownloadFileEnded == pc = "data" /\ args.fn = "download_file" /\ retval.done

PubHealthLoadEnded == LoadEnded /\ loader.class = "PubHealthLoader"

\* The candidate of the call's split that existed first when it began.
FoundAtStart == FirstExisting(args.before, PubHealthPaths(args.split))

NoCandidate == PubHealthLoadEnded /\ IsValidSplit(args.split) /\ FoundAtStart = 0

HadCandidate == PubHealthLoadEnded /\ IsValidSplit(args.split) /\ FoundAtStart # 0

EffectsOf(kind) == SelectSeq(effects, LAMBDA e : e.kind = kind)

\* download() came back to load: it did nothing, or it got as far as the
\* extraction.
DownloadReturned == EffectsOf("gdown") = <<>> \/ EffectsOf("extract") # <<>>

\* A split file is read only when a candidate existed at the start, and
\* then the first existing candidate in the listed order is what is read
\* and returned.
ReadsFirstCandidate ==
    /\ NoCandidate => EffectsOf("read") = <<>>
    /\ HadCandidate =>
           /\ effects = <<Effect("read", PubHealthPaths(args.split)[FoundAtStart])>>
           /\ \A k \in 1..(FoundAtStart - 1) :
                  ~Exists(args.before, PubHealthPaths(args.split)[k])
           /\ retval.value = read_file(args.before,
                                       PubHealthPaths(args.split)[FoundAtStart])
           /\ files = args.before

\* C29 as stated: PubHealthLoader.load with a valid split absent from all
\* three candidate paths calls download() exactly once and always ends in
\* FileNotFoundError; a split file is read only when a candidate existed at
\* the start, and then it is the first existing one in the listed order.
C29_AlwaysFileNotFound ==
    /\ NoCandidate =>
           /\ Len(EffectsOf("download()")) = 1
           /\ retval.value.raised
           /\ retval.value.exc.class = "FileNotFoundError"
    /\ ReadsFirstCandidate

\* C29: PubHealthLoader.load with a valid split absent from all three
\* candidate paths calls download() exactly once, reads nothing, and ends
\* in an exception: the FileNotFoundError naming the split when download()
\* returns, whether or not the split file is now there, and otherwise the
\* exception that left download().  A split file is read only when a
\* candidate existed at the start, and then it is the first existing one in
\* the listed order.
C29_NotFoundWhenDownloadReturns ==
    /\ NoCandidate =>
           /\ Len(EffectsOf("download()")) = 1
           /\ effects[1].kind = "download()"
           /\ retval.value.raised
           /\ DownloadReturned <=>
                  retval.value.exc = PubHealthNotFound(args.split)
           /\ ~DownloadReturned =>
                  retval.value.exc.class \in
                      {"RequestException", "FileNotFoundError", "BadZipFile"}
    /\ ReadsFirstCandidate

\* The download has put the split file in the first candidate place, and
\* the call still ends in FileNotFoundError.
C29_Witness ==
    /\ NoCandidate
    /\ EffectsOf("extract") # <<>>
    /\ Exists(files, PubHealthPaths(args.split)[1])
    /\ retval.value.raised
    /\ retval.value.exc = PubHealthNotFound(args.split)

====
